---- MODULE Spec2Model ----
(***************************************************************************)
(* fuzzycp: resolve a list of names against the files of the working       *)
(* directory by fuzzy matching, report the matches, and copy or move them  *)
(* after a confirmation.  The script src/fuzzycp.py runs top to bottom;    *)
(* each block of it is one action below, in program order.                 *)
(*                                                                         *)
(* Strings are sequences of one-character strings, so that stem, replace,  *)
(* the bracket regex, split/join, strip and lower are computed, not        *)
(* assumed.  Scores are fixed-point numbers: a score s stands for the      *)
(* float s / ScoreScale.                                                   *)
(*                                                                         *)
(* What the script reads from its environment (the lines of the names     *)
(* file, the order of the directory listing, the scores, the answer at the *)
(* prompt, the outcome of a system call) is drawn where it is read.        *)
(*                                                                         *)
(* Environment assumptions: the destination directory is not the working   *)
(* directory, it holds none of the candidate files before the run, and     *)
(* nobody else changes the two directories while the script runs.          *)
(***************************************************************************)
EXTENDS Integers, Sequences, FiniteSets, TLC

\* ------------------------------------------------------------------ bounds
\* Longest names file, in lines.
MaxNames == 2
\* Largest working directory, in entries.
MaxFiles == 2
\* Longest filename given to the normalizer alone.
MaxLen == 5
\* Resolution of the scorer's float results: a score is a multiple of 1/ScoreScale.
ScoreScale == 2

\* ------------------------------------------------------- program constants
DefaultThreshold == 50
MaxThreshold == 100

\* -------------------------------------------------------------- characters
Space == " "
IsSpace(c) == c = Space
IsOpen(c) == c \in {"[", "(", "{"}
IsClose(c) == c \in {"]", ")", "}"}

\* ---------------------------------------------------------- str.strip()
RECURSIVE LStrip(_)
LStrip(s) ==
    IF s # <<>> /\ IsSpace(Head(s)) THEN LStrip(Tail(s)) ELSE s

RECURSIVE RStrip(_)
RStrip(s) ==
    IF s # <<>> /\ IsSpace(s[Len(s)]) THEN RStrip(SubSeq(s, 1, Len(s) - 1)) ELSE s

Strip(s) == RStrip(LStrip(s))

\* ---------------------------------------------------------- str.lower()
LowerChar(c) ==
    CASE c = "Y" -> "y"
      [] c = "N" -> "n"
      [] c = "E" -> "e"
      [] c = "S" -> "s"
      [] OTHER -> c

Lower(s) == [i \in 1..Len(s) |-> LowerChar(s[i])]

\* ------------------------------------------------------- Path(f).stem
\* Largest index of "." in s[1..i], 0 when there is none (str.rfind).
RECURSIVE RFind(_, _)
RFind(s, i) ==
    IF i = 0 THEN 0
    ELSE IF s[i] = "." THEN i
    ELSE RFind(s, i - 1)

\* Path(s).name for a string without path separators: "" and "." both
\* denote the current directory, whose name is empty.
PathName(s) == IF s = <<>> \/ s = <<".">> THEN <<>> ELSE s

\* The final component without its suffix; a dot that starts or ends the
\* name starts no suffix.
Stem(f) ==
    LET name == PathName(f)
        j == RFind(name, Len(name))
    IN IF 1 < j /\ j < Len(name) THEN SubSeq(name, 1, j - 1) ELSE name

\* ------------------------------- s.replace("_", " ").replace("-", " ")
ReplaceSeparators(s) ==
    [i \in 1..Len(s) |-> IF s[i] \in {"_", "-"} THEN Space ELSE s[i]]

\* -------------------------------------------------- BRACKETED.sub(" ", s)
\* First index >= i of s that holds no whitespace, Len(s) + 1 when none.
RECURSIVE SkipSpaces(_, _)
SkipSpaces(s, i) ==
    IF i <= Len(s) /\ IsSpace(s[i]) THEN SkipSpaces(s, i + 1) ELSE i

\* First index >= i of s that holds a closing bracket, 0 when none.
RECURSIVE FirstClose(_, _)
FirstClose(s, i) ==
    IF i > Len(s) THEN 0
    ELSE IF IsClose(s[i]) THEN i
    ELSE FirstClose(s, i + 1)

\* The regex \s*[\[\(\{][^\]\)\}]*[\]\)\}]\s* tried at index i: the index
\* after the match, 0 when it does not match there.
MatchEnd(s, i) ==
    LET j == SkipSpaces(s, i)
    IN IF j <= Len(s) /\ IsOpen(s[j])
       THEN LET k == FirstClose(s, j + 1)
            IN IF k = 0 THEN 0 ELSE SkipSpaces(s, k + 1)
       ELSE 0

\* Leftmost, non-overlapping substitution of every match by one space.
RECURSIVE SubFrom(_, _)
SubFrom(s, i) ==
    IF i > Len(s) THEN <<>>
    ELSE LET e == MatchEnd(s, i)
         IN IF e # 0 THEN <<Space>> \o SubFrom(s, e)
            ELSE <<s[i]>> \o SubFrom(s, i + 1)

\* The same substitution with count=1: only the first span is removed.
SubFirstFrom(s, i) ==
    LET starts == {p \in i..Len(s) : MatchEnd(s, p) # 0}
    IN IF starts = {} THEN s
       ELSE LET p == CHOOSE q \in starts : \A r \in starts : q <= r
            IN SubSeq(s, 1, p - 1) \o <<Space>> \o SubSeq(s, MatchEnd(s, p), Len(s))

\* Variant: sub with count=1.
BracketedSubMut(s) == SubFirstFrom(s, 1)

BracketedSub(s) == SubFrom(s, 1)

\* ------------------------------------------- " ".join(without.split())
RECURSIVE JoinSplitFrom(_, _, _)
JoinSplitFrom(s, i, acc) ==
    IF i > Len(s) THEN acc
    ELSE IF IsSpace(s[i]) THEN JoinSplitFrom(s, i + 1, acc)
    ELSE IF acc # <<>> /\ i > 1 /\ IsSpace(s[i - 1])
         THEN JoinSplitFrom(s, i + 1, acc \o <<Space, s[i]>>)
         ELSE JoinSplitFrom(s, i + 1, Append(acc, s[i]))

JoinSplit(s) == JoinSplitFrom(s, 1, <<>>)

\* ------------------------------------------------------- preprocessing
\* The body of the loop of preprocessing: the key of one filename.
Normalize(f) == Strip(JoinSplit(BracketedSub(ReplaceSeparators(Stem(f)))))

preprocessing(fs) == [i \in 1..Len(fs) |-> Normalize(fs[i])]

RECURSIVE SeqToSet(_)
SeqToSet(s) == IF s = <<>> THEN {} ELSE {Head(s)} \cup SeqToSet(Tail(s))

\* ============================================================ environment
\* Command lines: -c PATH, -m PATH, -o [PATH], -s, -t N.
OutputArgs == {"none", "-", "file"}
ThresholdArgs == {0, DefaultThreshold, MaxThreshold + 1}

\* Lines a names file may hold: a name, a name with trailing blanks, a
\* blank line.
NameLines == {<<"a">>, <<"b", " ">>, <<" ">>}

\* Entries of the working directory: three regular files, two of which
\* normalize to the same key, and a subdirectory.
RegularFiles ==
    { <<"a", ".", "x">>,
      <<"a", " ", "(", "1", ")", ".", "y">>,
      <<"b", ".", "x">> }
Directories == {<<"d">>}
Entries == RegularFiles \cup Directories

\* Scores the scorer may return: the largest one below 50, and exactly 50.
ScoreVals == {DefaultThreshold * ScoreScale - 1,
              DefaultThreshold * ScoreScale}

\* What the operator may type at the prompt.
Answers == { <<"y">>, <<"Y">>, <<"y", "e", "s">>, <<"n">> }

SeqsUpTo(S, n) == UNION {[1..k -> S] : k \in 0..n}

\* The names files: absent, or present with some lines.
NamesFiles ==
    {[found |-> TRUE, lines |-> l] : l \in SeqsUpTo(NameLines, MaxNames)}
        \cup {[found |-> FALSE, lines |-> <<>>]}

\* The working directories: some of the entries.
WorkingDirs == {S \in SUBSET Entries : Cardinality(S) <= MaxFiles}

\* glob.glob('*') on a directory: its entries once each, in any order.
Listings(S) == {s \in [1..Cardinality(S) -> S] :
                   \A i, j \in 1..Len(s) : i # j => s[i] # s[j]}

\* ================================================================== state
VARIABLES
    args,           \* the parsed command line
    cwd,            \* the entries of the working directory at the start
    fs,             \* the files now in the working directory and in dst
    dstCreated,     \* dst.mkdir(...) has succeeded
    out,            \* the stream listing mode writes to
    outFile,        \* the -o file: absent, open or closed, and its lines
    names, files, files_cleaned, map_orig, best_matches,
    total, rows,
    stdout, stderr,
    user_input, description,
    filtered_files,
    transfers,      \* one record per item the transfer loop has attempted
    history,        \* the blocks of the script executed so far, in order
    pc, exitCode,
    nf, nkey, nkey2, npc    \* the normalizer applied twice to one filename

env == <<args, cwd>>
disk == <<fs, dstCreated>>
outs == <<out, outFile, stdout, stderr>>
match == <<names, files, files_cleaned, map_orig, best_matches>>
report == <<total, rows>>
xfer == <<user_input, description, filtered_files, transfers>>
norm == <<nf, nkey, nkey2, npc>>
pipeline == <<env, disk, outs, match, report, xfer, history, pc, exitCode>>
vars == <<pipeline, norm>>

Running == -1

\* One line of standard output.  kind is "notfound", "header", "row",
\* "listing", "blank", "space", "conflict", "prompt" or "cancelled"; w1 and
\* w2 are the widths the two padded columns of a table line are set to.
Line(kind, name, file, num, w1, w2) ==
    [kind |-> kind, name |-> name, file |-> file, num |-> num, w1 |-> w1, w2 |-> w2]
Msg(kind) == Line(kind, <<>>, <<>>, 0, 0, 0)

\* ================================================================== Init
\* The state of a run before its first statement.
InitRun ==
    /\ fs = [src |-> cwd \cap RegularFiles, dst |-> {}]
    /\ dstCreated = FALSE
    /\ out = "unset"
    /\ outFile = [state |-> "absent", lines |-> <<>>]
    /\ names = <<>>
    /\ files = <<>>
    /\ files_cleaned = <<>>
    /\ map_orig = <<>>
    /\ best_matches = <<>>
    /\ total = 0
    /\ rows = <<>>
    /\ stdout = <<>>
    /\ stderr = <<>>
    /\ user_input = <<>>
    /\ description = "unset"
    /\ filtered_files = <<>>
    /\ transfers = <<>>
    /\ history = <<>>
    /\ exitCode = Running

Init ==
    /\ args \in [copy : BOOLEAN, move : BOOLEAN, output : OutputArgs,
                 space : BOOLEAN, threshold : ThresholdArgs]
    /\ cwd \in WorkingDirs
    /\ InitRun
    /\ pc = "get_args"
    /\ nf = <<>>
    /\ nkey = <<>>
    /\ nkey2 = <<>>
    /\ npc = "off"

\* An uncaught exception: the traceback goes to the error stream and the
\* interpreter exits with status 1.
Crash(step) ==
    /\ pc' = "crashed"
    /\ exitCode' = 1
    /\ stderr' = Append(stderr, "traceback")
    /\ history' = Append(history, step)

\* ------------------------------------------------------------- get_args
_threshold_type(ivalue) == 0 <= ivalue /\ ivalue <= MaxThreshold

\* args = get_args(): argparse rejects a threshold outside 0..100 with a
\* usage message and exit status 2.
GetArgs ==
    /\ pc = "get_args"
    /\ history' = Append(history, "get_args")
    /\ IF _threshold_type(args.threshold)
       THEN /\ pc' = "open_output"
            /\ UNCHANGED <<stderr, exitCode>>
       ELSE /\ pc' = "exited"
            /\ exitCode' = 2
            /\ stderr' = Append(stderr, "usage")
    /\ UNCHANGED <<env, disk, out, outFile, stdout, match, report, xfer, norm>>

\* ---------------------------------------------------------- output target
\* "-" selects standard output; a path is opened for writing at once, which
\* creates or truncates the file, and may fail.
OpenOutput ==
    /\ pc = "open_output"
    /\ IF args.output = "-"
       THEN /\ out' = "stdout"
            /\ pc' = "read_names"
            /\ history' = Append(history, "open_output")
            /\ UNCHANGED <<outFile, stderr, exitCode>>
       ELSE IF args.output # "none"
       THEN \E ok \in BOOLEAN :
              IF ok
              THEN /\ out' = "file"
                   /\ outFile' = [state |-> "open", lines |-> <<>>]
                   /\ pc' = "read_names"
                   /\ history' = Append(history, "open_output")
                   /\ UNCHANGED <<stderr, exitCode>>
              ELSE /\ Crash("open_output raised")
                   /\ UNCHANGED <<out, outFile>>
       ELSE /\ pc' = "read_names"
            /\ history' = Append(history, "open_output")
            /\ UNCHANGED <<out, outFile, stderr, exitCode>>
    /\ UNCHANGED <<env, disk, stdout, match, report, xfer, norm>>

\* ------------------------------------------------------------ read_names
\* [line.strip() for line in file if line.strip()]
read_names(f) ==
    IF f.found
    THEN LET stripped == [i \in 1..Len(f.lines) |-> Strip(f.lines[i])]
         IN SelectSeq(stripped, LAMBDA l : l # <<>>)
    ELSE <<>>

\* names = read_names(args.names); no names is fatal, with status 1.
ReadNames ==
    /\ pc = "read_names"
    /\ history' = Append(history, "read_names")
    /\ \E namesFile \in NamesFiles :
          LET read == read_names(namesFile)
          IN /\ names' = read
             /\ stdout' = IF namesFile.found THEN stdout
                          ELSE Append(stdout, Msg("notfound"))
             /\ IF read = <<>>
                THEN /\ stderr' = Append(stderr, "no names")
                     /\ pc' = "exited"
                     /\ exitCode' = 1
                ELSE /\ pc' = "list_files"
                     /\ UNCHANGED <<stderr, exitCode>>
    /\ UNCHANGED <<env, disk, out, outFile, files, files_cleaned, map_orig,
                   best_matches, report, xfer, norm>>

\* ------------------------------------------------- candidates and map_orig
isfile(f) == f \in RegularFiles

\* Variant: map_orig[cleaned] = [orig], one original per key.
SetDefaultAppendMut(m, cleaned, orig) ==
    IF cleaned \in DOMAIN m
    THEN [m EXCEPT ![cleaned] = <<orig>>]
    ELSE m @@ (cleaned :> <<orig>>)

\* map_orig.setdefault(cleaned, []).append(orig)
SetDefaultAppend(m, cleaned, orig) ==
    IF cleaned \in DOMAIN m
    THEN [m EXCEPT ![cleaned] = Append(@, orig)]
    ELSE m @@ (cleaned :> <<orig>>)

\* for cleaned, orig in zip(files_cleaned, files): the map after i pairs.
RECURSIVE BuildMapOrig(_, _, _)
BuildMapOrig(cleaned, origs, i) ==
    IF i = 0 THEN <<>>
    ELSE SetDefaultAppend(BuildMapOrig(cleaned, origs, i - 1), cleaned[i], origs[i])

Min(a, b) == IF a <= b THEN a ELSE b

ListFiles ==
    /\ pc = "list_files"
    /\ history' = Append(history, "list_files")
    /\ \E candidates \in Listings(cwd) :
       LET regular == SelectSeq(candidates, isfile)
           cleaned == preprocessing(regular)
       IN /\ files' = regular
          /\ files_cleaned' = cleaned
          /\ map_orig' = BuildMapOrig(cleaned, regular,
                                      Min(Len(cleaned), Len(regular)))
    /\ pc' = "match"
    /\ UNCHANGED <<env, disk, outs, names, best_matches, report, xfer, exitCode, norm>>

\* ---------------------------------------------------------- file_matching
\* process.extractOne(name, filenames, scorer=fuzz.WRatio): the choices are
\* scored in list order and a later choice replaces the best one only with
\* a strictly greater score; sc is the scorer, a function of the query and
\* the choice.  The index of the best of choices[1..i]:
RECURSIVE BestIndex(_, _, _, _)
BestIndex(query, choices, sc, i) ==
    IF i <= 1 THEN 1
    ELSE LET b == BestIndex(query, choices, sc, i - 1)
         IN IF sc[query][choices[i]] > sc[query][choices[b]] THEN i ELSE b

\* Variant: the query is returned in place of the choice.
extractOneMut(query, choices, sc) ==
    IF choices = <<>>
    THEN [found |-> FALSE, key |-> <<>>, score |-> 0]
    ELSE LET b == BestIndex(query, choices, sc, Len(choices))
         IN [found |-> TRUE, key |-> query, score |-> sc[query][choices[b]]]

\* None (found = FALSE) when there is no choice.
extractOne(query, choices, sc) ==
    IF choices = <<>>
    THEN [found |-> FALSE, key |-> <<>>, score |-> 0]
    ELSE LET b == BestIndex(query, choices, sc, Len(choices))
         IN [found |-> TRUE, key |-> choices[b], score |-> sc[query][choices[b]]]

\* Variant: a list of pairs, one appended per name.
DictSetMut(d, item) == Append(d, item)

\* matches[name] = (best_match[0], best_match[1]) on a dict, which keeps
\* its items in the order the keys were first inserted: an assignment to
\* a key already present replaces the value in place.
DictSet(d, item) ==
    IF \E i \in 1..Len(d) : d[i].name = item.name
    THEN [i \in 1..Len(d) |-> IF d[i].name = item.name THEN item ELSE d[i]]
    ELSE Append(d, item)

\* The dict after the first i names of the loop of file_matching.
RECURSIVE MatchesAfter(_, _, _, _)
MatchesAfter(ns, filenames, sc, i) ==
    IF i = 0 THEN <<>>
    ELSE LET matches == MatchesAfter(ns, filenames, sc, i - 1)
             best_match == extractOne(ns[i], filenames, sc)
         IN IF best_match.found
            THEN DictSet(matches, [name |-> ns[i], key |-> best_match.key,
                                   score |-> best_match.score])
            ELSE matches

file_matching(ns, filenames, sc) == MatchesAfter(ns, filenames, sc, Len(ns))

\* best_matches = file_matching(names, files_cleaned); the scorer is any
\* function of (query, choice) into the scores.
Match ==
    /\ pc = "match"
    /\ history' = Append(history, "match")
    /\ \E sc \in [SeqToSet(names) -> [SeqToSet(files_cleaned) -> ScoreVals]] :
          best_matches' = file_matching(names, files_cleaned, sc)
    /\ pc' = "rows"
    /\ UNCHANGED <<env, disk, outs, names, files, files_cleaned, map_orig,
                   report, xfer, exitCode, norm>>

\* ------------------------------------------------------------------ rows
\* round(score) of Python 3: to the nearest integer, a tie to the even one.
Round(score) ==
    LET q == score \div ScoreScale
        r == score % ScoreScale
    IN IF 2 * r < ScoreScale THEN q
       ELSE IF 2 * r > ScoreScale THEN q + 1
       ELSE IF q % 2 = 0 THEN q ELSE q + 1

\* Variant: if score <= args.threshold: continue
BelowThresholdMut(score, threshold) == score <= threshold * ScoreScale

\* if score < args.threshold: continue
BelowThreshold(score, threshold) == score < threshold * ScoreScale

\* os.path.getsize(original_fn): the model gives every file one size.
getsize(f) == Len(f)

\* The rows of one item of best_matches: one per original of its group.
RowsOfMatch(m, mo) ==
    [j \in 1..Len(mo[m.key]) |->
        [name |-> m.name, file |-> mo[m.key][j], score |-> Round(m.score)]]

\* map_orig[cleaned_fn] raises KeyError for a key that is not in the map.
KeyErrorAt(bm, mo, threshold, i) ==
    /\ ~BelowThreshold(bm[i].score, threshold)
    /\ bm[i].key \notin DOMAIN mo

\* The number of items the loop handles before it raises, all of them when
\* it does not.
Handled(bm, mo, threshold) ==
    LET bad == {i \in 1..Len(bm) : KeyErrorAt(bm, mo, threshold, i)}
    IN IF bad = {} THEN Len(bm)
       ELSE (CHOOSE i \in bad : \A j \in bad : i <= j) - 1

\* rows after the first i items of best_matches.
RECURSIVE RowsAfter(_, _, _, _)
RowsAfter(bm, mo, threshold, i) ==
    IF i = 0 THEN <<>>
    ELSE LET before == RowsAfter(bm, mo, threshold, i - 1)
         IN IF BelowThreshold(bm[i].score, threshold)
            THEN before
            ELSE before \o RowsOfMatch(bm[i], mo)

RECURSIVE SumSizes(_)
SumSizes(rs) == IF rs = <<>> THEN 0 ELSE getsize(Head(rs).file) + SumSizes(Tail(rs))

BuildRows ==
    /\ pc = "rows"
    /\ LET n == Handled(best_matches, map_orig, args.threshold)
           kept == RowsAfter(best_matches, map_orig, args.threshold, n)
       IN /\ rows' = kept
          /\ total' = IF args.space THEN SumSizes(kept) ELSE 0
          /\ IF n = Len(best_matches)
             THEN /\ pc' = "report"
                  /\ history' = Append(history, "rows")
                  /\ UNCHANGED <<stderr, exitCode>>
             ELSE Crash("rows raised")
    /\ UNCHANGED <<env, disk, out, outFile, stdout, match, xfer, norm>>

\* ---------------------------------------------------------------- report
HeaderName == <<"N", "a", "m", "e">>
HeaderMatch == <<"B", "e", "s", "t", "-", "m", "a", "t", "c", "h">>

Max(a, b) == IF a >= b THEN a ELSE b

RECURSIVE MaxLenOf(_, _)
MaxLenOf(ss, default) ==
    IF ss = <<>> THEN default
    ELSE IF Len(ss) = 1 THEN Len(ss[1])
    ELSE Max(Len(Head(ss)), MaxLenOf(Tail(ss), default))

\* print(original_fn, file=out) for every row.
Listing(rs) == [i \in 1..Len(rs) |-> Line("listing", <<>>, rs[i].file, 0, 0, 0)]

\* The header, one padded line per row, and the disk space when asked for.
Table(rs, space, tot) ==
    LET col1_w == Max(MaxLenOf([i \in 1..Len(rs) |-> rs[i].name], Len(HeaderName)),
                      Len(HeaderName))
        col2_w == Max(MaxLenOf([i \in 1..Len(rs) |-> rs[i].file], Len(HeaderMatch)),
                      Len(HeaderMatch))
    IN <<Line("header", HeaderName, HeaderMatch, 0, col1_w, col2_w)>>
       \o [i \in 1..Len(rs) |->
              Line("row", rs[i].name, rs[i].file, rs[i].score, col1_w, col2_w)]
       \o (IF space
           THEN <<Msg("blank"), Line("space", <<>>, <<>>, tot, 0, 0)>>
           ELSE <<>>)

Report ==
    /\ pc = "report"
    /\ history' = Append(history, "report")
    /\ IF args.output # "none"
       THEN IF out = "stdout"
            THEN /\ stdout' = stdout \o Listing(rows)
                 /\ UNCHANGED outFile
            ELSE /\ outFile' = [state |-> "closed",
                                lines |-> outFile.lines \o Listing(rows)]
                 /\ UNCHANGED stdout
       ELSE /\ stdout' = stdout \o Table(rows, args.space, total)
            /\ UNCHANGED outFile
    /\ pc' = "mode"
    /\ UNCHANGED <<env, disk, out, stderr, match, report, xfer, exitCode, norm>>

\* ------------------------------------------------------- copy or move
\* Variant: the conflict is never detected.
ConflictMut(a) == FALSE

\* if args.copy and args.move
Conflict(a) == a.copy /\ a.move

\* The conflict check, then input(...) under -c or under -m.
SelectMode ==
    /\ pc = "mode"
    /\ history' = Append(history, "mode")
    /\ IF Conflict(args)
       THEN /\ stdout' = Append(stdout, Msg("conflict"))
            /\ pc' = "exited"
            /\ exitCode' = 1
            /\ UNCHANGED <<user_input, description>>
       ELSE IF args.copy \/ args.move
       THEN /\ \E answer \in Answers : user_input' = answer
            /\ stdout' = stdout \o <<Msg("prompt"), Msg("blank")>>
            /\ description' = IF args.copy THEN "Copying files" ELSE "Moving files"
            /\ pc' = "confirm"
            /\ UNCHANGED exitCode
       ELSE /\ pc' = "confirm"
            /\ UNCHANGED <<stdout, user_input, description, exitCode>>
    /\ UNCHANGED <<env, disk, out, outFile, stderr, match, report,
                   filtered_files, transfers, norm>>

\* Variant: user_input.lower() != 'n'
AffirmativeMut(answer) == Lower(answer) # <<"n">>

\* user_input.lower() == 'y'
Affirmative(answer) == Lower(answer) = <<"y">>

\* if score >= args.threshold
AtLeastThreshold(score, threshold) == score >= threshold * ScoreScale

\* Variant: a file already in the list is not added again.
RECURSIVE FilteredAfterMut(_, _, _, _)
FilteredAfterMut(bm, mo, threshold, i) ==
    IF i = 0 THEN <<>>
    ELSE LET before == FilteredAfterMut(bm, mo, threshold, i - 1)
         IN IF AtLeastThreshold(bm[i].score, threshold) /\ bm[i].key \in DOMAIN mo
            THEN before \o SelectSeq(mo[bm[i].key],
                                     LAMBDA f : f \notin SeqToSet(before))
            ELSE before

\* filtered_files after the first i items of best_matches.
RECURSIVE FilteredAfter(_, _, _, _)
FilteredAfter(bm, mo, threshold, i) ==
    IF i = 0 THEN <<>>
    ELSE LET before == FilteredAfter(bm, mo, threshold, i - 1)
         IN IF AtLeastThreshold(bm[i].score, threshold) /\ bm[i].key \in DOMAIN mo
            THEN before \o mo[bm[i].key]
            ELSE before

\* With -c or -m: on 'y' the list of files is built and dst.mkdir(parents=
\* True, exist_ok=True) is called, which may fail; on any other answer the
\* cancellation is printed.  Without -c and -m the script ends here.
Confirm ==
    /\ pc = "confirm"
    /\ IF args.copy \/ args.move
       THEN IF Affirmative(user_input)
            THEN IF \E i \in 1..Len(best_matches) :
                       /\ AtLeastThreshold(best_matches[i].score, args.threshold)
                       /\ best_matches[i].key \notin DOMAIN map_orig
                 THEN /\ Crash("confirm raised")
                      /\ UNCHANGED <<filtered_files, dstCreated, stdout>>
                 ELSE /\ filtered_files' = FilteredAfter(best_matches, map_orig,
                                               args.threshold, Len(best_matches))
                      /\ \E ok \in BOOLEAN :
                            IF ok
                            THEN /\ dstCreated' = TRUE
                                 /\ pc' = "transfer"
                                 /\ history' = Append(history, "confirm")
                                 /\ UNCHANGED <<stderr, exitCode>>
                            ELSE /\ Crash("confirm raised")
                                 /\ UNCHANGED dstCreated
                      /\ UNCHANGED stdout
            ELSE /\ stdout' = Append(stdout, Msg("cancelled"))
                 /\ pc' = "done"
                 /\ exitCode' = 0
                 /\ history' = Append(history, "confirm")
                 /\ UNCHANGED <<filtered_files, dstCreated, stderr>>
       ELSE /\ pc' = "done"
            /\ exitCode' = 0
            /\ history' = Append(history, "confirm")
            /\ UNCHANGED <<filtered_files, dstCreated, stdout, stderr>>
    /\ UNCHANGED <<env, fs, out, outFile, match, report, user_input,
                   description, transfers, norm>>

\* ---------------------------------------------------------- transfer loop
\* What an operation on f can do: it finds no source when f is no longer
\* in the working directory, and otherwise succeeds or fails on I/O.
Outcomes(disk_, f) ==
    IF f \in disk_.src THEN {"ok", "ioerror"} ELSE {"missing"}

\* shutil.copy2(src, target): target = dst / src.name.
copy2(disk_, f, result) ==
    IF result = "ok" THEN [disk_ EXCEPT !.dst = @ \cup {f}] ELSE disk_

\* shutil.move(src, target)
move(disk_, f, result) ==
    IF result = "ok"
    THEN [src |-> disk_.src \ {f}, dst |-> disk_.dst \cup {f}]
    ELSE disk_

Failed(t) == t.copy \in {"ioerror", "missing"} \/ t.move \in {"ioerror", "missing"}

\* Variant: the exception is caught and the loop goes on.
AfterTransferMut(t) == "transfer"

\* An exception of copy2 or move is not caught: the loop ends there.
AfterTransfer(t) == IF Failed(t) THEN "crashed" ELSE "transfer"

\* One iteration of: for original_fn in tqdm(filtered_files, ...).
Transfer ==
    /\ pc = "transfer"
    /\ Len(transfers) < Len(filtered_files)
    /\ LET original_fn == filtered_files[Len(transfers) + 1]
       IN \E rc \in (IF args.copy THEN Outcomes(fs, original_fn) ELSE {"skip"}) :
            LET copied == copy2(fs, original_fn, rc)
            IN \E rm \in (IF args.move /\ rc \in {"ok", "skip"}
                          THEN Outcomes(copied, original_fn) ELSE {"skip"}) :
                 LET t == [file |-> original_fn, copy |-> rc, move |-> rm]
                     next == AfterTransfer(t)
                 IN /\ fs' = move(copied, original_fn, rm)
                    /\ transfers' = Append(transfers, t)
                    /\ pc' = next
                    /\ exitCode' = IF next = "crashed" THEN 1 ELSE exitCode
                    /\ stderr' = IF next = "crashed"
                                 THEN Append(stderr, "traceback") ELSE stderr
    /\ history' = Append(history, "transfer")
    /\ UNCHANGED <<env, dstCreated, out, outFile, stdout, match, report,
                   user_input, description, filtered_files, norm>>

\* The loop is exhausted and the script ends.
EndOfScript ==
    /\ pc = "transfer"
    /\ Len(transfers) = Len(filtered_files)
    /\ pc' = "done"
    /\ exitCode' = 0
    /\ history' = Append(history, "end")
    /\ UNCHANGED <<env, disk, outs, match, report, xfer, norm>>

Next ==
    \/ GetArgs
    \/ OpenOutput
    \/ ReadNames
    \/ ListFiles
    \/ Match
    \/ BuildRows
    \/ Report
    \/ SelectMode
    \/ Confirm
    \/ Transfer
    \/ EndOfScript

Spec == Init /\ [][Next]_vars

\* ======================================================== normalizer alone
\* The characters of the filenames the normalizer is applied to.
NormAlphabet == {"a", ".", " ", "_", "-", "(", ")"}

\* What glob.glob('*') can return: a non-empty name that starts with no dot.
Globbed == {s \in SeqsUpTo(NormAlphabet, MaxLen) : s # <<>> /\ s[1] # "."}

InitNorm ==
    /\ args = [copy |-> FALSE, move |-> FALSE, output |-> "none",
               space |-> FALSE, threshold |-> DefaultThreshold]
    /\ cwd = {}
    /\ InitRun
    /\ pc = "off"
    /\ nf \in Globbed
    /\ nkey = <<>>
    /\ nkey2 = <<>>
    /\ npc = "file"

\* The key of a file of the directory.
NormalizeFile ==
    /\ npc = "file"
    /\ nkey' = Normalize(nf)
    /\ npc' = "key"
    /\ UNCHANGED <<pipeline, nf, nkey2>>

\* The normalizer applied to that key.
NormalizeKey ==
    /\ npc = "key"
    /\ nkey2' = Normalize(nkey)
    /\ npc' = "again"
    /\ UNCHANGED <<pipeline, nf, nkey>>

NextNorm == NormalizeFile \/ NormalizeKey

SpecNorm == InitNorm /\ [][NextNorm]_vars

\* ================================================================ claims
Did(step) == \E i \in 1..Len(history) : history[i] = step
LastStep == IF history = <<>> THEN "none" ELSE history[Len(history)]
Terminated == pc \in {"done", "exited", "crashed"}
\* The state a block of the script leaves behind: the block has just run.
JustDid(step) == LastStep = step
Printed(kind) == \E i \in 1..Len(stdout) : stdout[i].kind = kind
InitialFs == [src |-> cwd \cap RegularFiles, dst |-> {}]
OneMode == (args.copy \/ args.move) /\ ~(args.copy /\ args.move)
NoSideEffect == ~dstCreated /\ transfers = <<>> /\ fs = InitialFs
Yes == <<"y", "e", "s">>
Paths(rs) == [i \in 1..Len(rs) |-> rs[i].file]
Attempted == [i \in 1..Len(transfers) |-> transfers[i].file]

\* The queries in input order, each at its first occurrence only.
FirstOccurrences(ns) ==
    LET keep == {i \in 1..Len(ns) : \A j \in 1..(i - 1) : ns[j] # ns[i]}
        nth[k \in 0..Len(ns)] ==
            IF k = 0 THEN 0 ELSE CHOOSE i \in keep : i > nth[k - 1] /\
                                   \A j \in keep : j > nth[k - 1] => i <= j
    IN [k \in 1..Cardinality(keep) |-> ns[nth[k]]]

\* The KeyGroup of a key: the candidate files with that key, in listing order.
KeyGroup(key) == SelectSeq(files, LAMBDA f : Normalize(f) = key)

\* The Match of a query that has one.
MatchOf(name) ==
    best_matches[CHOOSE i \in 1..Len(best_matches) : best_matches[i].name = name]

\* The rows one Match expands to.
Expand(m) ==
    [j \in 1..Len(KeyGroup(m.key)) |->
        [name |-> m.name, file |-> KeyGroup(m.key)[j], score |-> Round(m.score)]]

\* The rows of the queries qs, in that order, for the Matches whose
\* unrounded score is at least the threshold.
RECURSIVE ExpectedRows(_)
ExpectedRows(qs) ==
    IF qs = <<>> THEN <<>>
    ELSE (IF MatchOf(Head(qs)).score >= args.threshold * ScoreScale
          THEN Expand(MatchOf(Head(qs))) ELSE <<>>) \o ExpectedRows(Tail(qs))

\* ------------------------------------------------------------------- C1
\* C1 as stated: with -c or -m, the destination directory is created and
\* files are transferred if and only if the answer is "yes"; any other
\* answer cancels with no effect.
C1_YesGatesTransfer ==
    (OneMode /\ Did("confirm")) =>
        /\ (dstCreated \/ transfers # <<>>) => user_input = Yes
        /\ user_input # Yes => Printed("cancelled") /\ NoSideEffect
        /\ user_input = Yes => ~Printed("cancelled")

\* C1 amended: the affirmative answer is "y" or "Y".  Nothing is created or
\* transferred before that answer; on it mkdir is attempted and, when the
\* run ends normally, every kept row has been transferred; on any other
\* answer, "yes" included, the run prints the cancellation, ends with
\* status 0 and has had no effect.
C1_LetterYGatesTransfer ==
    /\ ~NoSideEffect => OneMode /\ Did("mode") /\ user_input \in {<<"y">>, <<"Y">>}
    /\ (OneMode /\ (Did("confirm") \/ Did("confirm raised"))) =>
          IF user_input \in {<<"y">>, <<"Y">>}
          THEN /\ ~Printed("cancelled")
               /\ dstCreated \/ (pc = "crashed" /\ LastStep = "confirm raised")
               /\ pc = "done" => Attempted = Paths(rows)
          ELSE /\ Printed("cancelled")
               /\ NoSideEffect
               /\ pc = "done" /\ exitCode = 0

\* An upper-case Y was given and the files were transferred.
C1_Witness ==
    /\ OneMode /\ user_input = <<"Y">> /\ pc = "done"
    /\ dstCreated /\ transfers # <<>>

\* ------------------------------------------------------------------- C2
\* C2: with -c and -m together the run never prompts, never creates the
\* destination, never transfers a file, never reaches the confirmation,
\* the transfer loop or the normal end, and ends only with a non-zero
\* status.
C2_ConflictAborts ==
    (args.copy /\ args.move) =>
        /\ ~Printed("prompt")
        /\ NoSideEffect
        /\ pc \notin {"confirm", "transfer", "done"}
        /\ Terminated => exitCode # 0
        /\ Did("mode") => pc = "exited" /\ exitCode = 1

\* The conflict was detected and reported.
C2_Witness ==
    /\ args.copy /\ args.move /\ pc = "exited" /\ exitCode = 1
    /\ Printed("conflict")

\* ------------------------------------------------------------------- C3
\* C3: when a usage error (conflicting -c and -m, or no names) ends the
\* run, no matching has run, no table or listing was emitted and the
\* output file was not opened.
C3_UsageErrorBeforeWork ==
    (pc = "exited" /\ exitCode = 1) =>
        /\ ~Did("match")
        /\ ~Printed("header") /\ ~Printed("row") /\ ~Printed("listing")
        /\ outFile.state = "absent"

\* ------------------------------------------------------------------- C4
\* C4 as stated: with candidates there is one Match per query of the input
\* sequence, duplicates included; without candidates there is none.
C4_OneMatchPerQuery ==
    JustDid("match") =>
        IF files_cleaned = <<>> THEN best_matches = <<>>
        ELSE [i \in 1..Len(best_matches) |-> best_matches[i].name] = names

\* C4 amended: with candidates there is one Match per distinct query, in
\* the order of first occurrence (a repeated name yields one Match);
\* without candidates there is none.
C4_OneMatchPerDistinctQuery ==
    JustDid("match") =>
        IF files_cleaned = <<>> THEN best_matches = <<>>
        ELSE /\ [i \in 1..Len(best_matches) |-> best_matches[i].name]
                   = FirstOccurrences(names)
             /\ Len(best_matches) = Cardinality(SeqToSet(names))

\* A names list with a repeated name was matched against candidates.
C4_Witness ==
    /\ Did("match") /\ Len(names) = 2 /\ names[1] = names[2]
    /\ files_cleaned # <<>> /\ Len(best_matches) = 1

\* ------------------------------------------------------------------- C5
\* C5 as stated: the row (query, originalPath, score) of a Match is kept if
\* and only if its score, the rounded one the row carries, is >= threshold.
C5_KeptIffRowScore ==
    JustDid("rows") =>
        LET kept == SeqToSet(rows)
        IN \A i \in 1..Len(best_matches) :
              LET expanded == Expand(best_matches[i])
              IN \A j \in 1..Len(expanded) :
                    (expanded[j] \in kept)
                        <=> (expanded[j].score >= args.threshold)

\* C5 amended: a row is kept if and only if the unrounded score of its
\* Match is >= threshold; every kept row carries a rounded score >=
\* threshold and stems from a Match.
C5_KeptIffMatchScore ==
    JustDid("rows") =>
        LET kept == SeqToSet(rows)
            candidates == UNION {SeqToSet(Expand(best_matches[i])) :
                                    i \in 1..Len(best_matches)}
        IN /\ \A i \in 1..Len(best_matches) :
                 LET expanded == Expand(best_matches[i])
                 IN \A j \in 1..Len(expanded) :
                       (expanded[j] \in kept)
                           <=> (best_matches[i].score >= args.threshold * ScoreScale)
           /\ kept \subseteq candidates
           /\ \A r \in kept : r.score >= args.threshold

\* At threshold 50 one Match scores exactly 50 and is kept, another scores
\* just below 50, rounds to 50, and is dropped.
C5_Witness ==
    /\ Did("rows") /\ args.threshold = DefaultThreshold
    /\ \E i, j \in 1..Len(best_matches) :
          /\ best_matches[i].score = DefaultThreshold * ScoreScale
          /\ best_matches[j].score < DefaultThreshold * ScoreScale
          /\ Round(best_matches[j].score) = DefaultThreshold
          /\ \E k \in 1..Len(rows) : rows[k].name = best_matches[i].name
          /\ \A k \in 1..Len(rows) : rows[k].name # best_matches[j].name

\* ------------------------------------------------------------------- C6
\* The number of rows the first i Matches expand to when kept.
RECURSIVE KeptGroupSizes(_)
KeptGroupSizes(i) ==
    IF i = 0 THEN 0
    ELSE KeptGroupSizes(i - 1)
         + (IF best_matches[i].score >= args.threshold * ScoreScale
            THEN Len(KeyGroup(best_matches[i].key)) ELSE 0)

\* C6 as stated: the kept rows are, for the queries in input order whose
\* Match passes the threshold, the KeyGroup of the matched key in listing
\* order, one after the other.
C6_RowsPerQueryInOrder ==
    JustDid("rows") =>
        IF best_matches = <<>> THEN rows = <<>>
        ELSE rows = ExpectedRows(names)

\* C6 amended: the same over the distinct queries in the order of their
\* first occurrence; the number of rows is the sum of the sizes of the
\* KeyGroups of the kept Matches.
C6_RowsPerDistinctQueryInOrder ==
    JustDid("rows") =>
        /\ IF best_matches = <<>> THEN rows = <<>>
           ELSE rows = ExpectedRows(FirstOccurrences(names))
        /\ Len(rows) = KeptGroupSizes(Len(best_matches))

\* A name given twice matched a key shared by two files and was kept:
\* two rows, one per file, in listing order.
C6_Witness ==
    /\ Did("rows") /\ Len(names) = 2 /\ names[1] = names[2]
    /\ Len(files) = 2 /\ Normalize(files[1]) = Normalize(files[2])
    /\ Len(rows) = 2 /\ rows[1].file = files[1] /\ rows[2].file = files[2]

\* ------------------------------------------------------------------- C7
IsPrefix(p, q) == Len(p) <= Len(q) /\ \A i \in 1..Len(p) : p[i] = q[i]
NoIoError ==
    \A i \in 1..Len(transfers) :
        transfers[i].copy # "ioerror" /\ transfers[i].move # "ioerror"
AllOk == \A i \in 1..Len(transfers) : ~Failed(transfers[i])

\* The least index whose path occurred at a smaller index, 0 when the
\* paths are distinct.
FirstRepeat(ps) ==
    LET rep == {j \in 1..Len(ps) : \E i \in 1..(j - 1) : ps[i] = ps[j]}
    IN IF rep = {} THEN 0 ELSE CHOOSE j \in rep : \A k \in rep : j <= k

\* C7 as stated: after the confirmation, with no I/O error from the
\* environment, the run has performed one transfer per kept row, in row
\* order and without deduplication, in copy mode and in move mode alike.
C7_TransfersEqualKeptRows ==
    (Terminated /\ dstCreated /\ NoIoError) =>
        Attempted = Paths(rows) /\ AllOk

\* C7 amended: the transfers attempted are at all times a prefix of the
\* paths of the kept rows, in row order and without deduplication, and all
\* of them when the run ends normally.  With no I/O error from the
\* environment, copy mode ends normally, a file matched by two queries
\* being copied twice; move mode ends normally when the paths are distinct
\* and otherwise stops at the first repeated path, whose source the
\* earlier move has removed.
C7_TransfersFollowKeptRows ==
    /\ IsPrefix(Attempted, Paths(rows))
    /\ transfers # <<>> => dstCreated
    /\ (pc = "done" /\ dstCreated) =>
          /\ Attempted = Paths(rows) /\ AllOk
          /\ SeqToSet(Paths(rows)) \subseteq fs.dst
    /\ (Terminated /\ dstCreated /\ NoIoError /\ args.copy) => pc = "done"
    /\ (Terminated /\ dstCreated /\ NoIoError /\ args.move) =>
          LET r == FirstRepeat(Paths(rows))
          IN IF r = 0 THEN pc = "done"
             ELSE /\ pc = "crashed"
                  /\ Len(transfers) = r
                  /\ transfers[r].move = "missing"

\* Two distinct queries matched the same file and it was copied twice.
C7_Witness ==
    /\ args.copy /\ pc = "done" /\ Len(transfers) = 2 /\ AllOk
    /\ transfers[1].file = transfers[2].file
    /\ rows[1].name # rows[2].name

\* ------------------------------------------------------------------- C8
\* C8 as stated: the normalizer applied to the key of any filename returns
\* that key.
C8_Idempotent == npc = "again" => nkey2 = nkey

\* A key keeps an extension when its last dot has a character before it
\* and one after it; the key "." alone names the current directory.
HasExtension(key) ==
    \/ key = <<".">>
    \/ \E j \in 2..(Len(key) - 1) :
          key[j] = "." /\ \A k \in (j + 1)..Len(key) : key[k] # "."

\* C8 amended: the normalizer applied to a key returns that key if and
\* only if the key has no extension left; unmatched brackets, a leading or
\* trailing dot and the empty key are returned unchanged.
C8_IdempotentWithoutExtension ==
    npc = "again" => (nkey2 = nkey <=> ~HasExtension(nkey))

\* A key with an unmatched bracket and a dot that is returned unchanged.
C8_Witness ==
    /\ npc = "again" /\ nkey2 = nkey
    /\ "(" \in SeqToSet(nkey) /\ "." \in SeqToSet(nkey)

\* ------------------------------------------------------------------- C9
\* The number of places (key, position) of map_orig that hold the file f.
Places(f) ==
    Cardinality({kj \in UNION {{<<k, j>> : j \in 1..Len(map_orig[k])} :
                                 k \in DOMAIN map_orig} :
                    map_orig[kj[1]][kj[2]] = f})

\* C9: every key the Matcher returns is one of the candidate keys, its
\* KeyGroup lookup succeeds with a non-empty list, and every candidate
\* file is in exactly one KeyGroup, that of its own normalized key.
C9_MatchedKeysAreCandidates ==
    /\ JustDid("match") =>
          \A i \in 1..Len(best_matches) :
              /\ best_matches[i].key \in SeqToSet(files_cleaned)
              /\ best_matches[i].key \in DOMAIN map_orig
              /\ map_orig[best_matches[i].key] # <<>>
    /\ JustDid("list_files") =>
          \A i \in 1..Len(files) :
              /\ Places(files[i]) = 1
              /\ Normalize(files[i]) \in DOMAIN map_orig
              /\ files[i] \in SeqToSet(map_orig[Normalize(files[i])])
    /\ ~Did("rows raised")

\* Two queries were matched, the key returned for the first is shared by
\* two files, and the rows were built from the lookups.
C9_Witness ==
    /\ Did("rows") /\ Len(best_matches) = 2
    /\ Len(map_orig[best_matches[1].key]) = 2
    /\ rows # <<>>

\* ------------------------------------------------------------------ C10
\* The attempts are the items of the list in order, one attempt each; only
\* the last attempt can have failed, and then the run has stopped; every
\* item transferred is at the destination and, in move mode, gone from
\* the working directory.
C10_Attempts ==
    /\ IsPrefix(Attempted, filtered_files)
    /\ \A i \in 1..(Len(transfers) - 1) : ~Failed(transfers[i])
    /\ (transfers # <<>> /\ Failed(transfers[Len(transfers)])) =>
          pc = "crashed" /\ exitCode = 1
    /\ \A i \in 1..Len(transfers) :
          ~Failed(transfers[i]) =>
              /\ transfers[i].file \in fs.dst
              /\ args.move => transfers[i].file \notin fs.src

\* A step attempts at most one more item, undoes no transfer, and does
\* nothing once the run has stopped.
C10_Step ==
    /\ Len(transfers') <= Len(transfers) + 1
    /\ IsPrefix(transfers, transfers')
    /\ fs.dst \subseteq fs'.dst
    /\ fs'.src \subseteq fs.src
    /\ pc = "crashed" => pc' = "crashed" /\ transfers' = transfers

\* C10: transfers are attempted one at a time in kept-row order, at most
\* once per item and without rollback: when the operation on an item
\* fails the run stops there, the items before it stay transferred (and,
\* in move mode, removed from the source), and no later item is attempted.
C10_SequentialNoRollback == []C10_Attempts /\ [][C10_Step]_vars

\* In move mode the second of at least three items failed: the first is
\* at the destination and gone from the source, the third was not tried.
C10_Witness ==
    /\ args.move /\ pc = "crashed" /\ Len(filtered_files) >= 3
    /\ Len(transfers) = 2 /\ Failed(transfers[2])
    /\ transfers[1].file \in fs.dst /\ transfers[1].file \notin fs.src
    /\ transfers[2].file \notin fs.dst /\ transfers[2].file \in fs.src

====
